---------------------------- MODULE Spec2Model ----------------------------
(* Model of scripts/components_assembly.py (matam): reads are partitioned  *)
(* by component, each component is assembled by an external assembler in   *)
(* a multiprocessing.Pool worker, and the per-component assemblies are     *)
(* merged into one contig file annotated with the component's LCA.         *)
(*                                                                         *)
(* Representation.  A python dict is a sequence of <<key, value>> pairs    *)
(* with distinct keys, in insertion order.  A path is a sequence of names  *)
(* (its "/"-separated parts) and a name is a sequence of string tokens,    *)
(* so that "%s" formatting and os.path.splitext can be computed.  A text   *)
(* file is a sequence of lines; a line of a FASTQ/FASTA file is a sequence *)
(* of tokens, a nucleotide or quality string is the sequence of its        *)
(* characters.                                                             *)
EXTENDS Integers, Sequences, FiniteSets, TLC

(* ------------------------------ bounds -------------------------------- *)
MaxReads == 2

MaxComponents == 2

MaxLines == 3

MaxCpu == 2

MaxEnvRemovals == 1

AllReadIds == <<"r1", "r2", "r3", "r4">>

AllComponentIds == <<"c1", "c2", "c3", "c4">>

ReadIds == {AllReadIds[i] : i \in 1..MaxReads}

ComponentIds == {AllComponentIds[i] : i \in 1..MaxComponents}

\* a read id that occurs in assignment tables but never in the read stream
GhostReadId == "r0"

\* the read with the given header: sequence and quality differ from each
\* other and from one read to the next
ReadOf(i) ==
    <<AllReadIds[i], [k \in 1..i |-> "A"] \o <<"C">>, [k \in 1..(i + 1) |-> "I"]>>

Reads == {ReadOf(i) : i \in 1..MaxReads}

RECURSIVE SeqsOver(_, _)
\* all sequences over S of length at most n
SeqsOver(S, n) ==
    IF n = 0 THEN {<<>>}
    ELSE LET shorter == SeqsOver(S, n - 1)
         IN  shorter \cup {Append(s, x) : s \in {t \in shorter : Len(t) = n - 1}, x \in S}

Range(s) == {s[i] : i \in 1..Len(s)}

IsInjective(s) == \A i, j \in 1..Len(s) : s[i] = s[j] => i = j

(* --------------------------- python dicts ----------------------------- *)
DictKeys(d) == {d[i][1] : i \in 1..Len(d)}

DictIndex(d, k) == CHOOSE i \in 1..Len(d) : d[i][1] = k

DictGet(d, k) == d[DictIndex(d, k)][2]

\* d[k] = v: an existing key keeps its position, a new key goes last
DictSet(d, k, v) ==
    IF k \in DictKeys(d) THEN [d EXCEPT ![DictIndex(d, k)] = <<k, v>>]
    ELSE Append(d, <<k, v>>)

(* ------------------------------- paths -------------------------------- *)
Extensions == {".fq", ".fasta", ".log"}

\* os.path.join(directory, name)
PathJoin(directory, name) == Append(directory, name)

\* os.path.splitext(p)[0]: the path without the extension of its last name
SplitextRoot(p) ==
    LET name == p[Len(p)]
    IN  IF Len(name) > 1 /\ name[Len(name)] \in Extensions
        THEN [p EXCEPT ![Len(p)] = SubSeq(name, 1, Len(name) - 1)]
        ELSE p

IsPrefix(p, q) == Len(p) <= Len(q) /\ SubSeq(q, 1, Len(p)) = p

\* "component%s_reads.fq" % component_id, joined to the directory
ReadsFqPath(directory, component_id) ==
    PathJoin(directory, <<"component", component_id, "_reads", ".fq">>)

\* a working directory built from the directory of fq, not from its name
_get_workdir_of_dirname(fq) == PathJoin(SubSeq(fq, 1, Len(fq) - 1), <<"assembly_wkdir">>)

\* '%s_assembly_wkdir' % splitext(fq)[0]
_get_workdir(fq) ==
    LET root == SplitextRoot(fq)
    IN  [root EXCEPT ![Len(root)] = Append(root[Len(root)], "_assembly_wkdir")]

LogFile(wd) == PathJoin(wd, <<"assembly", ".log">>)

TmpDir(wd) == PathJoin(wd, <<"tmp">>)

FastaFile(wd) == PathJoin(wd, <<"assembly", ".fasta">>)

\* the working directory and the merged output the caller passes
WorkDir == << <<"workdir">> >>

OutContigsFasta == << <<"contigs", ".fasta">> >>

(* ----------------------------- filesystem ----------------------------- *)
\* fs maps each existing path to a directory or to a file with its lines
DirEntry == [kind |-> "dir", data |-> <<>>]

FileEntry(lines) == [kind |-> "file", data |-> lines]

IsFile(f, p) == p \in DOMAIN f /\ f[p].kind = "file"

IsDir(f, p) == p \in DOMAIN f /\ f[p].kind = "dir"

FsPut(f, p, e) == [q \in DOMAIN f \cup {p} |-> IF q = p THEN e ELSE f[q]]

FsRemove(f, P) == [q \in DOMAIN f \ P |-> f[q]]

\* shutil.rmtree(p): p and everything below it
Rmtree(f, p) == FsRemove(f, {q \in DOMAIN f : IsPrefix(p, q)})

\* os.mkdir(p), FileExistsError swallowed
MkdirExistOk(f, p) == IF p \in DOMAIN f THEN f ELSE FsPut(f, p, DirEntry)

\* open(p, 'a') and write the lines (the shell's >>)
FsAppend(f, p, lines) ==
    FsPut(f, p, FileEntry((IF IsFile(f, p) THEN f[p].data ELSE <<>>) \o lines))

(* ---------------------- extract_reads_by_component -------------------- *)
NullComponent == "NULL"

RECURSIVE ReadComponentDictKeepNull(_)
\* as ReadComponentDict, without the test for NULL
ReadComponentDictKeepNull(lines) ==
    IF lines = <<>> THEN <<>>
    ELSE DictSet(ReadComponentDictKeepNull(SubSeq(lines, 1, Len(lines) - 1)),
                 lines[Len(lines)][1], lines[Len(lines)][3])

RECURSIVE ReadComponentDict(_)
\* {t[0]: t[2] for t in lines if t[2] != 'NULL'}
ReadComponentDict(lines) ==
    IF lines = <<>> THEN <<>>
    ELSE LET t == lines[Len(lines)]
             d == ReadComponentDict(SubSeq(lines, 1, Len(lines) - 1))
         IN  IF t[3] # NullComponent THEN DictSet(d, t[1], t[3]) ELSE d

RECURSIVE ComponentReadsDict(_, _)
\* component_reads_dict[read_component_dict[header]].append(read), KeyError passed
ComponentReadsDict(fq, rcd) ==
    IF fq = <<>> THEN <<>>
    ELSE LET read == fq[Len(fq)]
             d == ComponentReadsDict(SubSeq(fq, 1, Len(fq) - 1), rcd)
         IN  IF read[1] \in DictKeys(rcd)
             THEN LET c == DictGet(rcd, read[1])
                  IN  DictSet(d, c, Append(IF c \in DictKeys(d) THEN DictGet(d, c) ELSE <<>>, read))
             ELSE d

RECURSIVE WithEveryComponent(_, _)
WithEveryComponent(d, rcd) ==
    IF rcd = <<>> THEN d
    ELSE LET c == Head(rcd)[2]
         IN  WithEveryComponent(IF c \in DictKeys(d) THEN d ELSE Append(d, <<c, <<>>>>), Tail(rcd))

\* as extract_reads_by_component, with an entry for every component of the
\* assignment table, whether or not one of its reads is in the stream
extract_reads_every_component(fq, lines) ==
    WithEveryComponent(ComponentReadsDict(fq, ReadComponentDict(lines)), ReadComponentDict(lines))

extract_reads_by_component(fq, lines) == ComponentReadsDict(fq, ReadComponentDict(lines))

(* --------------------------- save_components -------------------------- *)
\* '@{}\n{}\n+\n{}\n'.format(header, seq, qual)
FastqRecordLines(read) == << <<"@", read[1]>>, read[2], <<"+">>, read[3] >>

RECURSIVE FastqLines(_)
FastqLines(reads_list) ==
    IF reads_list = <<>> THEN <<>>
    ELSE FastqRecordLines(Head(reads_list)) \o FastqLines(Tail(reads_list))

RECURSIVE SaveFiles(_, _, _)
\* the loop of save_components: open(fq_path, 'w') and write every read
SaveFiles(f, crd, directory) ==
    IF crd = <<>> THEN f
    ELSE SaveFiles(FsPut(f, ReadsFqPath(directory, crd[1][1]),
                         FileEntry(FastqLines(crd[1][2]))),
                   Tail(crd), directory)

\* the filesystem after save_components
SaveComponentsFs(f, crd, directory) == SaveFiles(MkdirExistOk(f, directory), crd, directory)

\* the dict save_components returns
ComponentsFq(crd, directory) ==
    [i \in 1..Len(crd) |-> <<crd[i][1], ReadsFqPath(directory, crd[i][1])>>]


(* ----------------------------- assembler ------------------------------ *)
\* a FASTA file of the given nucleotide sequences: header line, sequence line
RECURSIVE FastaLines(_, _)
FastaLines(seqs, n) ==
    IF seqs = <<>> THEN <<>>
    ELSE << <<">", "contig", ToString(n)>>, Head(seqs) >> \o FastaLines(Tail(seqs), n + 1)

\* read_fasta_file_handle: the (header, seq) records of a FASTA file
read_fasta_file_handle(lines) ==
    [k \in 1..(Len(lines) \div 2) |-> <<lines[2 * k - 1], lines[2 * k]>>]

RECURSIVE format_seq(_)
\* format_seq: the sequence cut into lines of 80 characters
format_seq(seq) ==
    IF Len(seq) <= 80 THEN IF seq = <<>> THEN <<>> ELSE <<seq>>
    ELSE <<SubSeq(seq, 1, 80)>> \o format_seq(SubSeq(seq, 81, Len(seq)))

\* what the external assembler may write for one component in a pipeline run
RunAsmOutputs ==
    { FastaLines(<< <<"A", "C", "G", "T">> >>, 0),
      FastaLines(<< <<>>, <<"G", "G">> >>, 0) }

\* exit statuses of the external assembler
ExitStatuses == {0, 2}

(* ------------------------------- state -------------------------------- *)
VARIABLES
    pc,                         \* position of the orchestrator process
    fs,                         \* the filesystem
    earlierRun,                 \* an earlier run left its files behind
    cpu,                        \* argument cpu: the number of pool processes
    fastq,                      \* the read stream that was read
    assignLines,                \* the lines of the read-->component file
    components_dict,            \* component_id -> list of reads
    components_reads_fq,        \* component_id -> read file path
    params,                     \* the task descriptors given to starmap
    component_id_list,
    taskq,                      \* the pool's task queue: chunks not yet taken
    workers,                    \* the pool's worker processes
    results,                    \* starmap's MapResult: the value list, chunks left
    assembled_components_fasta, \* component_id -> assembly fasta path
    lca_dict,                   \* component_id -> lca
    component_lca,              \* locals of concat_components_fasta_with_lca
    contig_count,
    merge_i,
    invoked,                    \* history: assembler invocations per component
    failed,                     \* history: tasks that found their read file missing
                                \* or got a non-zero status from the assembler
    completed,                  \* history: tasks in the order they returned
    envRemovals                 \* read files removed from outside so far

vars ==
    <<pc, fs, earlierRun, cpu, fastq, assignLines, components_dict,
      components_reads_fq, params, component_id_list, taskq, workers, results,
      assembled_components_fasta, lca_dict, component_lca, contig_count, merge_i,
      invoked, failed, completed, envRemovals>>

orchVars ==
    <<fastq, assignLines, components_dict, components_reads_fq, params,
      component_id_list, assembled_components_fasta, lca_dict, component_lca,
      contig_count, merge_i>>

poolVars == <<taskq, workers, results>>

histVars == <<invoked, failed, completed, envRemovals>>

(* --------------------------- initial states --------------------------- *)
\* the merged output an earlier run wrote
StaleContigs ==
    << [index |-> 1, component |-> "c1", lca |-> "NULL", seq |-> << <<"T">> >>] >>

StaleReadLines == FastqRecordLines(<<"old", <<"T">>, <<"I">>>>)

\* what an earlier, completed run over every component left on disk
EarlierRunFs ==
    LET wd(c) == _get_workdir(ReadsFqPath(WorkDir, c))
        P == {WorkDir, OutContigsFasta}
             \cup {ReadsFqPath(WorkDir, c) : c \in ComponentIds}
             \cup UNION {{wd(c), LogFile(wd(c)), TmpDir(wd(c)), FastaFile(wd(c))} :
                          c \in ComponentIds}
    IN  [p \in P |->
           IF p = OutContigsFasta THEN FileEntry(StaleContigs)
           ELSE IF \E c \in ComponentIds : p = ReadsFqPath(WorkDir, c)
                THEN FileEntry(StaleReadLines)
           ELSE IF \E c \in ComponentIds : p = LogFile(wd(c))
                THEN FileEntry(<< <<"old log">> >>)
           ELSE IF \E c \in ComponentIds : p = FastaFile(wd(c))
                THEN FileEntry(FastaLines(<< <<"T">> >>, 0))
           ELSE DirEntry]

EmptyFs == [p \in {} |-> DirEntry]

InitFs(earlier) == IF earlier THEN EarlierRunFs ELSE EmptyFs

IdleWorker == [st |-> "idle", cid |-> 0, chunk |-> <<>>, k |-> 0, out |-> <<>>]

InitLocals ==
    /\ fastq = <<>>
    /\ assignLines = <<>>
    /\ components_dict = <<>>
    /\ components_reads_fq = <<>>
    /\ params = <<>>
    /\ component_id_list = <<>>
    /\ taskq = <<>>
    /\ workers = <<>>
    /\ results = [value |-> <<>>, left |-> 0]
    /\ assembled_components_fasta = <<>>
    /\ lca_dict = <<>>
    /\ component_lca = NullComponent
    /\ contig_count = 0
    /\ merge_i = 0
    /\ invoked = [c \in ComponentIds |-> 0]
    /\ failed = {}
    /\ completed = <<>>
    /\ envRemovals = 0

Init ==
    /\ pc = "start"
    /\ earlierRun \in BOOLEAN
    /\ fs = InitFs(earlierRun)
    /\ cpu \in 1..MaxCpu
    /\ InitLocals

(* ------------------- assemble_all_components: partition --------------- *)
\* an assignment line: read id, metanode, component id or NULL
AssignLine(r, c) == <<r, "m", c>>

\* read streams and assignment tables of a pipeline run: the reads in a
\* fixed order; line i assigns read i or, instead, the ghost read
RunFastqs == {[i \in 1..MaxReads |-> ReadOf(i)]}

RunTables ==
    {t \in [1..MaxReads -> {AssignLine(r, c) : r \in ReadIds \cup {GhostReadId},
                                                c \in ComponentIds \cup {NullComponent}}] :
        \A i \in 1..MaxReads : t[i][1] \in {AllReadIds[i], GhostReadId}}

\* lines 145, 17-33: both input files are read and the reads partitioned
ExtractReadsFrom(fastqs, tables) ==
    /\ pc = "start"
    /\ \E fq \in fastqs, lines \in tables :
          /\ fastq' = fq
          /\ assignLines' = lines
          /\ components_dict' = extract_reads_by_component(fq, lines)
    /\ pc' = "extracted"
    /\ UNCHANGED <<fs, earlierRun, cpu, components_reads_fq, params, component_id_list,
                   assembled_components_fasta, lca_dict, component_lca, contig_count,
                   merge_i, poolVars, histVars>>

ExtractReads == ExtractReadsFrom(RunFastqs, RunTables)

\* lines 21, 27: open() of a missing input file raises, the run ends
ExtractReadsInputMissing ==
    /\ pc = "start"
    /\ pc' = "crashed"
    /\ UNCHANGED <<fs, earlierRun, cpu, orchVars, poolVars, histVars>>

\* line 146
SaveComponents ==
    /\ pc = "extracted"
    /\ fs' = SaveComponentsFs(fs, components_dict, WorkDir)
    /\ components_reads_fq' = ComponentsFq(components_dict, WorkDir)
    /\ pc' = "saved"
    /\ UNCHANGED <<earlierRun, cpu, fastq, assignLines, components_dict, params,
                   component_id_list, assembled_components_fasta, lca_dict,
                   component_lca, contig_count, merge_i, poolVars, histVars>>

(* ----------------- assemble_all_components: the pool ------------------ *)
\* lines 153-157: one task descriptor per entry of components_reads_fq
BuildParams(crf) ==
    [i \in 1..Len(crf) |-> [in_fastq |-> crf[i][2], workdir |-> _get_workdir(crf[i][2])]]

BuildComponentIdList(crf) == [i \in 1..Len(crf) |-> crf[i][1]]

\* Pool.starmap's default chunksize: divmod(len(iterable), len(pool) * 4)
Chunksize(n, processes) ==
    (n \div (processes * 4)) + (IF n % (processes * 4) # 0 THEN 1 ELSE 0)

\* the task batches starmap puts on the queue: <<chunk number, task indices>>
Chunks(n, processes) ==
    IF n = 0 THEN <<>>
    ELSE LET cs == Chunksize(n, processes)
             m  == (n + cs - 1) \div cs
             lo(j) == (j - 1) * cs + 1
             hi(j) == IF j * cs < n THEN j * cs ELSE n
         IN  [j \in 1..m |-> <<j, [i \in 1..(hi(j) - lo(j) + 1) |-> lo(j) + i - 1]>>]

\* a slot of the value list no result has arrived for (python's None)
None == <<>>

\* MapResult.__init__: every slot None, every chunk outstanding
NewMapResult(n, processes) ==
    [value |-> [i \in 1..n |-> None], left |-> Len(Chunks(n, processes))]

\* the chunk's results put in the first free slots: arrival order
FillChunkArrival(value, cid, chunksize, out) ==
    LET free == CHOOSE i \in 1..Len(value) :
                    value[i] = None /\ \A j \in 1..(i - 1) : value[j] # None
    IN  [i \in 1..Len(value) |->
            IF free <= i /\ i < free + Len(out) THEN out[i - free + 1] ELSE value[i]]

\* MapResult._set: value[i*chunksize:(i+1)*chunksize] = the chunk's results
FillChunk(value, cid, chunksize, out) ==
    [i \in 1..Len(value) |->
        IF (cid - 1) * chunksize < i /\ i <= (cid - 1) * chunksize + Len(out)
        THEN out[i - (cid - 1) * chunksize]
        ELSE value[i]]

\* lines 153-160: the parameters are built, the pool is created and
\* starmap submits every task; the orchestrator then blocks in starmap
PoolStart ==
    /\ pc = "saved"
    /\ params' = BuildParams(components_reads_fq)
    /\ component_id_list' = BuildComponentIdList(components_reads_fq)
    /\ taskq' = Chunks(Len(components_reads_fq), cpu)
    /\ workers' = [w \in 1..cpu |-> IdleWorker]
    /\ results' = NewMapResult(Len(components_reads_fq), cpu)
    /\ pc' = "starmap"
    /\ UNCHANGED <<fs, earlierRun, cpu, fastq, assignLines, components_dict,
                   components_reads_fq, assembled_components_fasta, lca_dict,
                   component_lca, contig_count, merge_i, histVars>>

\* the task a worker is running
Job(w) == workers[w].chunk[workers[w].k]

\* a pool worker takes the next chunk of tasks from the queue
WorkerGet(w) ==
    /\ pc = "starmap"
    /\ workers[w].st = "idle"
    /\ taskq # <<>>
    /\ workers' = [workers EXCEPT ![w] =
                      [st |-> "check", cid |-> Head(taskq)[1], chunk |-> Head(taskq)[2],
                       k |-> 1, out |-> <<>>]]
    /\ taskq' = Tail(taskq)
    /\ UNCHANGED <<pc, fs, earlierRun, cpu, orchVars, results, histVars>>

\* lines 76-78: sys.exit when the read file is missing.  SystemExit is not
\* an Exception: the pool's worker loop does not catch it, the worker
\* process ends and no result is ever sent for its chunk
InputFileOk(f, in_fastq) == IsFile(f, in_fastq)

TaskCheckInput(w) ==
    /\ pc = "starmap"
    /\ workers[w].st = "check"
    /\ IF InputFileOk(fs, params[Job(w)].in_fastq)
       THEN /\ workers' = [workers EXCEPT ![w].st = "prepare"]
            /\ UNCHANGED failed
       ELSE /\ workers' = [workers EXCEPT ![w].st = "dead"]
            /\ failed' = failed \cup {Job(w)}
    /\ UNCHANGED <<pc, fs, earlierRun, cpu, orchVars, taskq, results, invoked, completed,
                   envRemovals>>

\* lines 80-83: a stale working directory is removed, a fresh one is made
PrepareWorkdir(f, workdir) ==
    FsPut(IF IsDir(f, workdir) THEN Rmtree(f, workdir) ELSE f, workdir, DirEntry)

TaskPrepareWorkdir(w) ==
    /\ pc = "starmap"
    /\ workers[w].st = "prepare"
    /\ fs' = PrepareWorkdir(fs, params[Job(w)].workdir)
    /\ workers' = [workers EXCEPT ![w].st = "run"]
    /\ UNCHANGED <<pc, earlierRun, cpu, orchVars, taskq, results, histVars>>

\* the shell command of lines 89-97: echo appends to the log, then the
\* assembler wrapper runs, appends to the log, uses its tmp dir and, when
\* it succeeds, writes the fasta file
RunCommand(f, in_fastq, workdir, rc, contigs) ==
    LET logged == FsAppend(f, LogFile(workdir), << <<"component #">>, <<"rc", ToString(rc)>> >>)
        tmp    == MkdirExistOk(logged, TmpDir(workdir))
    IN  IF rc = 0 THEN FsPut(tmp, FastaFile(workdir), FileEntry(contigs)) ELSE tmp

\* the exit status is not looked at
TaskOutcomeIgnoreRc(rc) == "return"

\* lines 101-106: a non-zero status ends the worker process by sys.exit,
\* otherwise the task returns
TaskOutcome(rc) == IF rc # 0 THEN "exit" ELSE "return"

TaskResult(workdir) == FastaFile(workdir)

\* the pool's worker loop after a task: the next task of the chunk, or the
\* chunk's results are sent and the worker is free again
WorkerAfterTask(wk, outcome, result) ==
    IF outcome = "exit" THEN [wk EXCEPT !.st = "dead"]
    ELSE IF wk.k < Len(wk.chunk)
         THEN [wk EXCEPT !.st = "check", !.k = wk.k + 1, !.out = Append(wk.out, result)]
         ELSE IdleWorker

\* lines 100-106 and the pool's worker loop: the assembler is run once
TaskRunAssembler(w) ==
    /\ pc = "starmap"
    /\ workers[w].st = "run"
    /\ \E rc \in ExitStatuses, contigs \in RunAsmOutputs :
          LET p == params[Job(w)]
              wk == workers[w]
              outcome == TaskOutcome(rc)
          IN  /\ fs' = RunCommand(fs, p.in_fastq, p.workdir, rc, contigs)
              /\ invoked' = [invoked EXCEPT ![component_id_list[Job(w)]] = @ + 1]
              /\ failed' = IF rc # 0 THEN failed \cup {Job(w)} ELSE failed
              /\ completed' = IF outcome = "return" THEN Append(completed, Job(w)) ELSE completed
              /\ workers' = [workers EXCEPT ![w] = WorkerAfterTask(wk, outcome, TaskResult(p.workdir))]
              /\ results' =
                    IF outcome = "return" /\ wk.k = Len(wk.chunk)
                    THEN [value |-> FillChunk(results.value, wk.cid, Chunksize(Len(params), cpu),
                                              Append(wk.out, TaskResult(p.workdir))),
                          left |-> results.left - 1]
                    ELSE results
    /\ UNCHANGED <<pc, earlierRun, cpu, orchVars, taskq, envRemovals>>

\* the pool's maintenance thread replaces a worker process that has exited
PoolRepopulate(w) ==
    /\ pc = "starmap"
    /\ workers[w].st = "dead"
    /\ workers' = [workers EXCEPT ![w] = IdleWorker]
    /\ UNCHANGED <<pc, fs, earlierRun, cpu, orchVars, taskq, results, histVars>>

\* the environment: a read file is removed from outside while tasks run
EnvRemoveReadFile ==
    /\ pc = "starmap"
    /\ envRemovals < MaxEnvRemovals
    /\ \E i \in 1..Len(params) :
          /\ IsFile(fs, params[i].in_fastq)
          /\ fs' = FsRemove(fs, {params[i].in_fastq})
    /\ envRemovals' = envRemovals + 1
    /\ UNCHANGED <<pc, earlierRun, cpu, orchVars, poolVars, invoked, failed, completed>>

\* starmap returns one chunk early
StarmapReadyEarly(res) == res.left <= 1

\* MapResult.wait: starmap returns when no chunk is outstanding
StarmapReady(res) == res.left = 0

\* line 163: dict(zip(component_id_list, fasta_list))
ZipDict(ids, fastas) ==
    [i \in 1..(IF Len(ids) < Len(fastas) THEN Len(ids) ELSE Len(fastas)) |-> <<ids[i], fastas[i]>>]

\* lines 160-163: starmap returns, the pool is terminated
StarmapReturn ==
    /\ pc = "starmap"
    /\ StarmapReady(results)
    /\ assembled_components_fasta' = ZipDict(component_id_list, results.value)
    /\ pc' = "collected"
    /\ UNCHANGED <<fs, earlierRun, cpu, fastq, assignLines, components_dict,
                   components_reads_fq, params, component_id_list, lca_dict,
                   component_lca, contig_count, merge_i, poolVars, histVars>>

(* ---------------------- extract_lca_by_component ---------------------- *)
AllLabels == <<"taxA", "taxB", "taxC", "taxD">>

RECURSIVE LcaDict(_)
\* {t[0]: t[1] for t in lines if len(t) == 2}
LcaDict(lines) ==
    IF lines = <<>> THEN <<>>
    ELSE LET t == lines[Len(lines)]
             d == LcaDict(SubSeq(lines, 1, Len(lines) - 1))
         IN  IF Len(t) = 2 THEN DictSet(d, t[1], t[2]) ELSE d

extract_lca_by_component(lines) == LcaDict(lines)

\* the lines a taxon file may hold for component i: two columns (kept),
\* one or three columns (skipped)
LcaLineChoices(i) ==
    {<<AllComponentIds[i], AllLabels[i]>>, <<AllComponentIds[i]>>,
     <<AllComponentIds[i], AllLabels[i], "x">>}

\* taxon files: one line per component
LcaTables ==
    {t \in [1..MaxComponents -> UNION {LcaLineChoices(i) : i \in 1..MaxComponents}] :
        \A i \in 1..MaxComponents : t[i] \in LcaLineChoices(i)}

\* line 166
ExtractLca ==
    /\ pc = "collected"
    /\ \E lines \in LcaTables : lca_dict' = extract_lca_by_component(lines)
    /\ pc' = "lca_read"
    /\ UNCHANGED <<fs, earlierRun, cpu, fastq, assignLines, components_dict,
                   components_reads_fq, params, component_id_list,
                   assembled_components_fasta, component_lca, contig_count, merge_i,
                   poolVars, histVars>>

\* line 40: open() of a missing taxon file raises, the run ends
ExtractLcaInputMissing ==
    /\ pc = "collected"
    /\ pc' = "crashed"
    /\ UNCHANGED <<fs, earlierRun, cpu, orchVars, poolVars, histVars>>

(* ------------------ concat_components_fasta_with_lca ------------------ *)
\* lines 118-119: component_lca is assigned only when the id is in the dict
ComponentLca(dict, component_id, previous) ==
    IF component_id \in DictKeys(dict) THEN DictGet(dict, component_id) ELSE previous

\* the counter is incremented for an empty sequence too
CountAfterAny(count, seq) == count + 1

\* lines 122-123: the counter after a record
CountAfter(count, seq) == IF Len(seq) # 0 THEN count + 1 ELSE count

RECURSIVE EmitContigs(_, _, _, _)
\* lines 121-125: the records written for one component's fasta records
EmitContigs(records, count, component_id, lca) ==
    IF records = <<>> THEN <<>>
    ELSE LET seq == Head(records)[2]
             n   == CountAfter(count, seq)
         IN  (IF Len(seq) # 0
              THEN <<[index |-> n, component |-> component_id, lca |-> lca,
                      seq |-> format_seq(seq)]>>
              ELSE <<>>)
             \o EmitContigs(Tail(records), n, component_id, lca)

RECURSIVE CountContigs(_, _)
CountContigs(records, count) ==
    IF records = <<>> THEN count
    ELSE CountContigs(Tail(records), CountAfter(count, Head(records)[2]))

\* lines 110-116: an old output is unlinked, the output is opened for writing
OpenContigs(f, contigs_fasta) ==
    FsPut(IF IsFile(f, contigs_fasta) THEN FsRemove(f, {contigs_fasta}) ELSE f,
          contigs_fasta, FileEntry(<<>>))

ConcatOpen ==
    /\ pc = "lca_read"
    /\ fs' = OpenContigs(fs, OutContigsFasta)
    /\ component_lca' = NullComponent
    /\ contig_count' = 0
    /\ merge_i' = 1
    /\ pc' = "merging"
    /\ UNCHANGED <<earlierRun, cpu, fastq, assignLines, components_dict,
                   components_reads_fq, params, component_id_list,
                   assembled_components_fasta, lca_dict, poolVars, histVars>>

\* lines 117-125: one iteration of the loop over assembled_components_fasta;
\* open() of a missing assembly raises and the run ends
ConcatComponent ==
    /\ pc = "merging"
    /\ merge_i <= Len(assembled_components_fasta)
    /\ LET component_id    == assembled_components_fasta[merge_i][1]
           component_fasta == assembled_components_fasta[merge_i][2]
           lca == ComponentLca(lca_dict, component_id, component_lca)
       IN  /\ component_lca' = lca
           /\ IF IsFile(fs, component_fasta)
              THEN LET records == read_fasta_file_handle(fs[component_fasta].data)
                   IN  /\ fs' = FsAppend(fs, OutContigsFasta,
                                         EmitContigs(records, contig_count, component_id, lca))
                       /\ contig_count' = CountContigs(records, contig_count)
                       /\ merge_i' = merge_i + 1
                       /\ pc' = "merging"
              ELSE /\ pc' = "crashed"
                   /\ UNCHANGED <<fs, contig_count, merge_i>>
    /\ UNCHANGED <<earlierRun, cpu, fastq, assignLines, components_dict,
                   components_reads_fq, params, component_id_list,
                   assembled_components_fasta, lca_dict, poolVars, histVars>>

\* line 127
ConcatClose ==
    /\ pc = "merging"
    /\ merge_i > Len(assembled_components_fasta)
    /\ pc' = "done"
    /\ UNCHANGED <<fs, earlierRun, cpu, orchVars, poolVars, histVars>>

(* --------------------------- specifications --------------------------- *)
\* a run of assemble_all_components
Next ==
    \/ ExtractReads
    \/ ExtractReadsInputMissing
    \/ SaveComponents
    \/ PoolStart
    \/ \E w \in 1..cpu : WorkerGet(w)
    \/ \E w \in 1..cpu : TaskCheckInput(w)
    \/ \E w \in 1..cpu : TaskPrepareWorkdir(w)
    \/ \E w \in 1..cpu : TaskRunAssembler(w)
    \/ \E w \in 1..cpu : PoolRepopulate(w)
    \/ EnvRemoveReadFile
    \/ StarmapReturn
    \/ ExtractLca
    \/ ExtractLcaInputMissing
    \/ ConcatOpen
    \/ ConcatComponent
    \/ ConcatClose

Spec == Init /\ [][Next]_vars

\* the processes of the run are scheduled fairly: the orchestrator and
\* every pool process take their next step when they can; the environment
\* and the failure of an input file are not obliged to happen
RunStep ==
    \/ ExtractReads
    \/ SaveComponents
    \/ PoolStart
    \/ StarmapReturn
    \/ ExtractLca
    \/ ConcatOpen
    \/ ConcatComponent
    \/ ConcatClose

WorkerStep(w) ==
    \/ WorkerGet(w)
    \/ TaskCheckInput(w)
    \/ TaskPrepareWorkdir(w)
    \/ TaskRunAssembler(w)
    \/ PoolRepopulate(w)

FairSpec ==
    /\ Spec
    /\ WF_vars(RunStep)
    /\ \A w \in 1..MaxCpu : WF_vars(w \in 1..cpu /\ WorkerStep(w))

(* the partition alone: extract_reads_by_component, then save_components, *)
(* over every read stream and every assignment table within the bounds    *)
AssignLineSet ==
    {AssignLine(r, c) : r \in ReadIds, c \in ComponentIds \cup {NullComponent}}

AllFastqs == {s \in SeqsOver(Reads, MaxReads) : IsInjective(s)}

AllTables == SeqsOver(AssignLineSet, MaxLines)

ExtractReadsAny == ExtractReadsFrom(AllFastqs, AllTables)

PartitionInit ==
    /\ pc = "start"
    /\ earlierRun \in BOOLEAN
    /\ fs = InitFs(earlierRun)
    /\ cpu = 1
    /\ InitLocals

PartitionNext ==
    \/ ExtractReadsAny
    \/ SaveComponents

PartitionSpec == PartitionInit /\ [][PartitionNext]_vars

(* the merge alone: extract_lca_by_component, then                        *)
(* concat_components_fasta_with_lca, over every order of the components   *)
(* and every assembly within the bounds                                   *)
NucleotideSeqs == {<<>>, <<"A", "C">>}

MergeAsmOutputs == {FastaLines(seqs, 0) : seqs \in SeqsOver(NucleotideSeqs, 2)}

ComponentOrders == {s \in SeqsOver(ComponentIds, MaxComponents) : IsInjective(s)}

FastaOf(c) == FastaFile(_get_workdir(ReadsFqPath(WorkDir, c)))

MergeInit ==
    /\ pc = "collected"
    /\ earlierRun = FALSE
    /\ cpu = 1
    /\ \E order \in ComponentOrders :
          /\ component_id_list = order
          /\ assembled_components_fasta = [i \in 1..Len(order) |-> <<order[i], FastaOf(order[i])>>]
          /\ fs \in [{FastaOf(c) : c \in Range(order)} -> {FileEntry(o) : o \in MergeAsmOutputs}]
    /\ fastq = <<>>
    /\ assignLines = <<>>
    /\ components_dict = <<>>
    /\ components_reads_fq = <<>>
    /\ params = <<>>
    /\ taskq = <<>>
    /\ workers = <<>>
    /\ results = [value |-> <<>>, left |-> 0]
    /\ lca_dict = <<>>
    /\ component_lca = NullComponent
    /\ contig_count = 0
    /\ merge_i = 0
    /\ invoked = [c \in ComponentIds |-> 0]
    /\ failed = {}
    /\ completed = <<>>
    /\ envRemovals = 0

MergeNext ==
    \/ ExtractLca
    \/ ConcatOpen
    \/ ConcatComponent
    \/ ConcatClose

MergeSpec == MergeInit /\ [][MergeNext]_vars

(* ------------------------------ properties ---------------------------- *)
\* the merged output file, when there is one
Contigs == fs[OutContigsFasta].data

\* the orchestrator is past starmap: the merge phase
InMergePhase == pc \in {"collected", "lca_read", "merging", "done"}

\* the merged output as the run found it
OutputUntouched ==
    /\ (OutContigsFasta \in DOMAIN fs) = earlierRun
    /\ earlierRun => fs[OutContigsFasta] = FileEntry(StaleContigs)

\* the component the assignment file gives a read id: that of its last
\* line that does not say NULL, or NULL when it has none
AssignedComponent(r) ==
    LET L == {j \in 1..Len(assignLines) :
                 assignLines[j][1] = r /\ assignLines[j][3] # NullComponent}
    IN  IF L = {} THEN NullComponent
        ELSE assignLines[CHOOSE j \in L : \A k \in L : k <= j][3]

\* the component has a read of the stream assigned to it
Surviving(c) == \E n \in 1..Len(fastq) : AssignedComponent(fastq[n][1]) = c

RECURSIVE EncounterOrder(_)
\* the components in the order the stream first shows a read of theirs
EncounterOrder(fq) ==
    IF fq = <<>> THEN <<>>
    ELSE LET before == EncounterOrder(SubSeq(fq, 1, Len(fq) - 1))
             c == AssignedComponent(fq[Len(fq)][1])
         IN  IF c = NullComponent \/ c \in Range(before) THEN before ELSE Append(before, c)

\* how many 4-line records of a FASTQ file are the given read, verbatim
Occurrences(lines, read) ==
    Cardinality({k \in 0..((Len(lines) \div 4) - 1) :
                    /\ lines[4 * k + 1] = <<"@", read[1]>>
                    /\ lines[4 * k + 2] = read[2]
                    /\ lines[4 * k + 3] = <<"+">>
                    /\ lines[4 * k + 4] = read[3]})

\* the non-empty sequences of a FASTA file, in order
NonEmptySeqs(lines) ==
    SelectSeq([k \in 1..(Len(lines) \div 2) |-> lines[2 * k]], LAMBDA q : q # <<>>)

RECURSIVE ExpectedContigs(_)
\* <<component, sequence>> of every non-empty sequence, component by component
ExpectedContigs(order) ==
    IF order = <<>> THEN <<>>
    ELSE LET seqs == NonEmptySeqs(fs[FastaOf(Head(order))].data)
         IN  [k \in 1..Len(seqs) |-> <<Head(order), <<seqs[k]>>>>] \o ExpectedContigs(Tail(order))

RECURSIVE TotalNonEmpty(_)
TotalNonEmpty(acf) ==
    IF acf = <<>> THEN 0
    ELSE Len(NonEmptySeqs(fs[Head(acf)[2]].data)) + TotalNonEmpty(Tail(acf))

\* C1: every contig of the merged output carries the lca the taxon table
\* gives its own component, or NULL when the table has no entry for it
C1_LcaOfOwnComponent ==
    pc \in {"merging", "done"} =>
        \A k \in 1..Len(Contigs) :
            Contigs[k].lca = IF Contigs[k].component \in DictKeys(lca_dict)
                             THEN DictGet(lca_dict, Contigs[k].component)
                             ELSE NullComponent

\* C2: once a task has found its read file missing or got a non-zero
\* status, the orchestrator stays in starmap, the merge phase is not
\* entered and the merged output is as the run found it
C2_NoMergeAfterFailure == failed # {} => pc = "starmap" /\ OutputUntouched

\* a task failed, the other task returned, the pool has nothing left to
\* do, and the old output is still there
C2_Witness ==
    /\ failed # {}
    /\ earlierRun
    /\ Len(params) = 2
    /\ Len(completed) = 1
    /\ taskq = <<>>
    /\ \A w \in 1..cpu : workers[w].st = "idle"

\* C3: when a task gets a non-zero status (or finds its read file
\* missing), the orchestrator eventually ends the run with a failure
C3_FailureAborts == (failed # {}) ~> (pc = "crashed")

\* C4: after extract_reads_by_component and save_components, a read of
\* the stream is exactly once in the read file of the component the
\* assignment file gives it, verbatim, and in no other component's read
\* file; a read with no line, or with NULL only, is in none
C4_ReadsMaterializedOnce ==
    pc = "saved" =>
        /\ \A i, j \in 1..Len(components_reads_fq) :
              components_reads_fq[i][2] = components_reads_fq[j][2] => i = j
        /\ \A n \in 1..Len(fastq) :
              LET c == AssignedComponent(fastq[n][1])
              IN  /\ c # NullComponent => c \in DictKeys(components_reads_fq)
                  /\ \A i \in 1..Len(components_reads_fq) :
                        /\ IsFile(fs, components_reads_fq[i][2])
                        /\ Occurrences(fs[components_reads_fq[i][2]].data, fastq[n])
                              = IF components_reads_fq[i][1] = c THEN 1 ELSE 0

\* two reads in the stream, one assigned (by the last of two lines), the
\* other with a NULL line only
C4_Witness ==
    /\ pc = "saved"
    /\ Len(fastq) = 2
    /\ Len(components_reads_fq) = 1
    /\ Len(assignLines) = 3
    /\ \E j \in 1..3 : assignLines[j][3] = NullComponent
    /\ \E j, k \in 1..3 : j < k /\ assignLines[j][1] = assignLines[k][1]
                           /\ assignLines[j][3] # assignLines[k][3]
                           /\ assignLines[k][3] # NullComponent

\* C5: the indices of the merged output are 1, 2, ... in output order, no
\* record has an empty sequence, and when the merge is done their number
\* is the number of non-empty sequences of all the components' assemblies
C5_IndicesContiguous ==
    pc \in {"merging", "done"} =>
        /\ \A k \in 1..Len(Contigs) : Contigs[k].index = k /\ Contigs[k].seq # <<>>
        /\ contig_count = Len(Contigs)
        /\ pc = "done" => Len(Contigs) = TotalNonEmpty(assembled_components_fasta)

\* the merge is done over two components, an empty sequence was skipped
\* and contigs of both components were numbered
C5_Witness ==
    /\ pc = "done"
    /\ Len(assembled_components_fasta) = 2
    /\ Len(Contigs) >= 2
    /\ Contigs[1].component # Contigs[Len(Contigs)].component
    /\ \E i \in 1..2 :
          LET lines == fs[assembled_components_fasta[i][2]].data
          IN  \E k \in 1..(Len(lines) \div 2) : lines[2 * k] = <<>>

\* C6: when a run has ended and the merged output file exists, the merge
\* ran to completion and no task failed
C6_OutputMeansSuccess ==
    pc \in {"done", "crashed"} /\ IsFile(fs, OutContigsFasta) =>
        pc = "done" /\ failed = {}

\* C7: in the merge phase every task has returned: the queue is empty, no
\* worker is busy and every slot of the result list is filled
C7_MergeAfterAllTasks ==
    InMergePhase =>
        /\ taskq = <<>>
        /\ \A w \in DOMAIN workers : workers[w].st = "idle"
        /\ Len(results.value) = Len(params)
        /\ \A i \in 1..Len(params) : results.value[i] # None
        /\ Range(completed) = 1..Len(params)

\* two pool processes ran two tasks and the merge has begun
C7_Witness ==
    /\ pc = "merging"
    /\ cpu = 2
    /\ Len(params) = 2
    /\ merge_i = 2

\* C8: whatever the order in which the tasks return, each component is
\* paired with the assembly of its own task, in the order the stream first
\* shows the components, and the contigs are merged and numbered in that
\* order
C8_OrderIndependent ==
    InMergePhase =>
        LET order == EncounterOrder(fastq)
        IN  /\ assembled_components_fasta =
                  [i \in 1..Len(order) |-> <<order[i], FastaOf(order[i])>>]
            /\ pc = "done" =>
                  LET expected == ExpectedContigs(order)
                  IN  /\ Len(Contigs) = Len(expected)
                      /\ \A k \in 1..Len(Contigs) :
                            /\ Contigs[k].index = k
                            /\ <<Contigs[k].component, Contigs[k].seq>> = expected[k]

\* the second task returned before the first, their assemblies differ,
\* and the merge is done
C8_Witness ==
    /\ pc = "done"
    /\ completed = <<2, 1>>
    /\ fs[assembled_components_fasta[1][2]] # fs[assembled_components_fasta[2][2]]
    /\ Len(Contigs) = 2

\* C9: the working directories of two tasks differ and none lies in
\* another or holds another task's read file; a task about to run the
\* assembler has its working directory fresh and empty; what a returned
\* task left (assembly, log) and the read files stay in place while other
\* tasks remove and recreate their directories
C9_WorkdirsExclusive ==
    /\ \A i, j \in 1..Len(params) :
          i # j => /\ params[i].workdir # params[j].workdir
                   /\ ~IsPrefix(params[i].workdir, params[j].workdir)
                   /\ ~IsPrefix(params[i].workdir, params[j].in_fastq)
    /\ \A w \in DOMAIN workers :
          workers[w].st = "run" =>
              /\ IsDir(fs, params[Job(w)].workdir)
              /\ {q \in DOMAIN fs : IsPrefix(params[Job(w)].workdir, q)} = {params[Job(w)].workdir}
    /\ pc = "starmap" =>
          \A i \in 1..Len(params) :
              /\ i \in Range(completed) =>
                    /\ IsFile(fs, FastaFile(params[i].workdir))
                    /\ IsFile(fs, LogFile(params[i].workdir))
              /\ envRemovals = 0 => IsFile(fs, params[i].in_fastq)

\* over the files of an earlier run, one task has returned while another
\* has just removed and recreated its working directory
C9_Witness ==
    /\ pc = "starmap"
    /\ earlierRun
    /\ cpu = 2
    /\ Len(completed) = 1
    /\ \E w \in 1..cpu : workers[w].st = "run"

\* C10: the assembler is invoked at most once per component, never for a
\* component none of whose reads is in the stream (it has no read file of
\* this run, no task and no contig), and exactly once for every other
\* component in a run that reaches the merge phase
C10_InvokedOncePerComponent ==
    \A c \in ComponentIds :
        /\ invoked[c] <= 1
        /\ (pc # "start" /\ ~Surviving(c)) =>
              /\ invoked[c] = 0
              /\ c \notin DictKeys(components_reads_fq)
              /\ c \notin Range(component_id_list)
              /\ pc = "done" => \A k \in 1..Len(Contigs) : Contigs[k].component # c
        /\ (InMergePhase /\ Surviving(c)) => invoked[c] = 1

\* a component is in the assignment table for the ghost read only, another
\* one has a read; the run reached the merge
C10_Witness ==
    /\ pc = "done"
    /\ \E j \in 1..Len(assignLines) :
          /\ assignLines[j][1] = GhostReadId
          /\ assignLines[j][3] \in ComponentIds
          /\ ~Surviving(assignLines[j][3])
    /\ \E c \in ComponentIds : Surviving(c) /\ invoked[c] = 1

=============================================================================
